---- MODULE Spec2Model ----
(***************************************************************************)
(* Model of the SWIFT MT parser of rustmsg:                                *)
(*   - StringParser (src/utils/string_parser.rs): the character cursor,    *)
(*   - read_blocks / read_system_block / read_message_text                 *)
(*     (src/swift/mt/swift_mt_parser.rs): the block framer.                *)
(* Strings are sequences of one-character strings.  The cursor position is *)
(* the 0-based index of the code, so the character at the cursor is        *)
(* data[position + 1].                                                     *)
(***************************************************************************)
EXTENDS Integers, Sequences, FiniteSets

VARIABLES
    data,           \* StringParser.data
    position,       \* StringParser.position
    pc,             \* control point of read_blocks (or "cursor" in CursorSpec)
    blocks,         \* read_blocks: the HashMap<char, Block> being built
    result,         \* what read_blocks returned: "none" while running, "Ok", or the error
    block_type,     \* read_blocks: start / block_type, "" before a label is read
    body_start,     \* position of the cursor when the body reader of the block was entered
    nesting_level,  \* read_system_block
    cur_content,    \* read_system_block: cur_content; read_message_text: content
    pos,            \* read_message_text: pos
    line,           \* read_message_text: line
    last,           \* CursorSpec: the last cursor call, its argument, start and result
    origin,         \* the header value whose to_raw output is the input, if any
    basic_header,   \* parse: basic_header
    application_header, \* parse: application_header
    user_header,    \* parse: user_header
    trailer,        \* parse: trailer
    ret             \* parse: the returned Result

parse_vars == <<origin, basic_header, application_header, user_header, trailer, ret>>

vars == <<data, position, pc, blocks, result, block_type, body_start,
          nesting_level, cur_content, pos, line, last, parse_vars>>

---------------------------------------------------------------------------
(* Bounds of the model *)

\* number of tokens an input of the framer is made of
MaxTokens == 3
\* length of the inputs of the bare cursor
MaxCursorLen == 3
\* largest argument given to n_chars and set_position
MaxArg == 4

---------------------------------------------------------------------------
(* Characters *)

CR == "\r"
LF == "\n"
OPEN == "{"
CLOSE == "}"
COLON == ":"
DASH == "-"

VALID_BLOCKS == {"1", "2", "3", "4", "5", "S"}

\* label characters the inputs use: the six valid ones and one that is not valid
Labels == VALID_BLOCKS \cup {"x"}

\* the pieces the inputs of the framer are made of: the openers of the blocks, the
\* opener of block 4 with its first line break, a sub-block, a line of text, the
\* sentinel, and single characters
Tokens ==
    { <<OPEN, l, COLON>> : l \in Labels }
    \cup { <<OPEN, "4", COLON, CR, LF>>, <<OPEN, "a", CLOSE>>, <<"a", CR, LF>>,
           <<DASH, CLOSE>>, <<CR, LF>>, <<OPEN>>, <<CLOSE>>, <<"a">>, <<CR>>, <<LF>> }

RECURSIVE Flatten(_)
Flatten(ts) == IF ts = <<>> THEN <<>> ELSE Head(ts) \o Flatten(Tail(ts))

TokenSeqs == UNION { [1..n -> Tokens] : n \in 0..MaxTokens }

\* the inputs given to parse_blocks
Inputs == { Flatten(ts) : ts \in TokenSeqs }

\* the characters of the inputs of the bare cursor
CursorChars == {"a", CR, LF, CLOSE}

\* the three lines of the input of positive_tests that has lone CRs
ExampleLines ==
    << <<"H", "e", "l", "l", "o", " ", "w", "o", "r", "l", "d", "!", CR>>,
       <<"W", "h", "a", "t", " ", "i", "s", " ", "g", "o", "i", "n", "g", " ", "o", "n", "?", CR, "a", "b">>,
       <<CR, "S", "o", "m", "e", "t", "h", "i", "n", "g">> >>

Example == ExampleLines[1] \o <<CR, LF>> \o ExampleLines[2] \o <<CR, LF>> \o ExampleLines[3]

CursorInputs == UNION { [1..n -> CursorChars] : n \in 0..MaxCursorLen } \cup {Example}

---------------------------------------------------------------------------
(* StringParser: each operation maps (data, position) to its result and    *)
(* the position it leaves.                                                 *)

Ok(v, p) == [ok |-> TRUE, val |-> v, pos |-> p]
Err(p) == [ok |-> FALSE, val |-> "End of string", pos |-> p]

\* has_more that stops one character early
has_more_short(d, p) == p + 1 < Len(d)

has_more(d, p) == p < Len(d)

next(d, p) ==
    IF p >= Len(d) THEN Err(p) ELSE Ok(d[p + 1], p + 1)

peek(d, p) ==
    IF p >= Len(d) THEN Err(p) ELSE Ok(d[p + 1], p)

n_chars(d, p, chars) ==
    IF p + chars > Len(d) THEN Err(p) ELSE Ok(SubSeq(d, p + 1, p + chars), p + chars)

\* usize::MAX, for a target whose usize has 16 bits
USIZE_MAX == 65535

PANIC == "panic"
Panic(p) == [ok |-> FALSE, val |-> PANIC, pos |-> p]

\* n_chars with the arithmetic of usize.  When position + chars exceeds usize::MAX
\* a build with overflow checks panics in the addition; a build without them
\* wraps the sum, which is then below position: the call returns the error if
\* the wrapped sum is past the end, and panics in the slice otherwise.
n_chars_usize(d, p, chars, overflow_checks) ==
    IF p + chars <= USIZE_MAX THEN n_chars(d, p, chars)
    ELSE IF overflow_checks THEN Panic(p)
    ELSE IF (p + chars) % (USIZE_MAX + 1) > Len(d) THEN Err(p)
    ELSE Panic(p)

set_position(d, p, new_position) == new_position

RECURSIVE until_loop(_, _, _, _)
until_loop(d, p, c, res) ==
    IF ~has_more(d, p) THEN Ok(res, p)
    ELSE LET n == next(d, p) IN
         IF ~n.ok THEN Err(n.pos)
         ELSE IF n.val = c THEN Ok(res, n.pos)
         ELSE until_loop(d, n.pos, c, Append(res, n.val))

\* until that leaves the cursor on the character it stopped at
until_keep(d, p, c) ==
    LET r == until_loop(d, p, c, <<>>)
    IN IF r.pos - p > Len(r.val) THEN [r EXCEPT !.pos = r.pos - 1] ELSE r

until(d, p, c) == until_loop(d, p, c, <<>>)

RECURSIVE next_line_loop(_, _, _, _)
next_line_loop(d, p, res, has_cr) ==
    IF ~has_more(d, p)
    THEN Ok(IF has_cr THEN Append(res, CR) ELSE res, p)
    ELSE LET n == next(d, p) IN
         IF ~n.ok THEN Err(n.pos)
         ELSE IF n.val = CR
              THEN next_line_loop(d, n.pos, IF has_cr THEN Append(res, CR) ELSE res, TRUE)
         ELSE IF n.val = LF
              THEN IF has_cr THEN Ok(res, n.pos)
                   ELSE next_line_loop(d, n.pos, Append(res, LF), FALSE)
         ELSE next_line_loop(d, n.pos,
                             Append(IF has_cr THEN Append(res, CR) ELSE res, n.val), FALSE)

\* next_line that ends the line at the first CR
next_line_at_cr(d, p) == until(d, p, CR)

\* next_line that ends the line at the first LF
next_line_at_lf(d, p) == until(d, p, LF)

next_line(d, p) == next_line_loop(d, p, <<>>, FALSE)

peek_line(d, p) ==
    LET maybe_line == next_line(d, p) IN [maybe_line EXCEPT !.pos = p]

---------------------------------------------------------------------------
(* The framer: read_blocks, read_system_block, read_message_text.          *)

E_START == "Invalid message format, expected start of block ({) but got"
E_LABEL == "Invalid message format, expected digit but got end of stream"
E_SEPARATOR == "Invalid message format, expected separator (:) but got"
E_NESTED == "Invalid message format, nested blocks are not supported in system blocks"
E_SYSTEM_EOS == "Invalid message format, got end of stream while reading system block before closing }"
E_TEXT_EOS == "Invalid message format, got end of stream while reading block 4 before reading -}"
E_TEXT_LINE == "Invalid message format, reached end of stream while reading block 4"

Errors == {E_START, E_LABEL, E_SEPARATOR, E_NESTED, E_SYSTEM_EOS, E_TEXT_EOS, E_TEXT_LINE}

NoCall == [op |-> "none"]

\* an insert that keeps the value already stored under the key
InsertIfAbsent(m, k, v) == [x \in DOMAIN m \cup {k} |-> IF x \in DOMAIN m THEN m[x] ELSE v]

\* HashMap::insert: a second insert under the same key replaces the first
Insert(m, k, v) == [x \in DOMAIN m \cup {k} |-> IF x = k THEN v ELSE m[x]]

EmptyMap == [x \in {} |-> <<>>]

\* String::starts_with
starts_with(s, prefix) ==
    Len(s) >= Len(prefix) /\ SubSeq(s, 1, Len(prefix)) = prefix

SENTINEL == <<DASH, CLOSE>>

\* the conditions of the dispatch of read_blocks on the label
IsFlat(c) == c \notin VALID_BLOCKS \/ c = "1" \/ c = "2"
IsSystem(c) == ~IsFlat(c) /\ (c = "3" \/ c = "5" \/ c = "S")
IsText(c) == ~IsFlat(c) /\ ~IsSystem(c) /\ c = "4"

\* the nesting test off by one
TooDeepAt3(level) == level > 2

\* read_system_block: the test that refuses a '{' inside a sub-block
TooDeep(level) == level > 1

\* the cursor set back to the start of the sentinel line
AtSentinel(p) == p

\* read_message_text: the position the cursor is set to after the sentinel line
AfterSentinel(p) == p + 2

\* the line appended with a bare LF
AppendLineLf(content, l) == content \o l \o <<LF>>

\* read_message_text: content.push_str(line); content.push_str("\r\n")
AppendLine(content, l) == content \o l \o <<CR, LF>>

\* the braces of the sub-blocks left out of the content
PushCharNoBrace(content, c) == IF c \in {OPEN, CLOSE} THEN content ELSE Append(content, c)

\* read_system_block: cur_content.push(c)
PushChar(content, c) == Append(content, c)

\* any character taken for the separator
IsSeparatorAny(r) == r.ok

\* read_blocks: separator.as_ref().ok() == Some(&':')
IsSeparator(r) == r.ok /\ r.val = COLON

\* return Err(ParsingError { message })
Fail(message) ==
    /\ pc' = "error"
    /\ result' = message

---------------------------------------------------------------------------
(* model.rs: the block decoders *)

DecodeOk(v) == [ok |-> TRUE, val |-> v]
DecodeErr(e) == [ok |-> FALSE, err |-> e]

E_EOS == "End of string"
E_INVALID_DIGIT == "invalid digit found in string"
E_EMPTY == "cannot parse integer from empty string"
E_SERVICE_CONVERT == "Could not convert to a service identifier"
E_SERVICE_UNKNOWN == "Unknown value for enum ServiceIdentifier"

DigitSeq == <<"0", "1", "2", "3", "4", "5", "6", "7", "8", "9">>
Digits == {DigitSeq[i] : i \in DOMAIN DigitSeq}
DigitVal(c) == (CHOOSE i \in DOMAIN DigitSeq : DigitSeq[i] = c) - 1

RECURSIVE Decimal(_)
Decimal(s) ==
    IF s = <<>> THEN 0
    ELSE Decimal(SubSeq(s, 1, Len(s) - 1)) * 10 + DigitVal(s[Len(s)])

\* str::parse::<u32>: one optional '+', then one or more decimal digits; the texts
\* it is given have at most 6 characters, so the value always fits 32 bits
parse_u32(s) ==
    IF s = <<>> THEN DecodeErr(E_EMPTY)
    ELSE LET digits == IF s[1] = "+" THEN Tail(s) ELSE s IN
         IF digits = <<>> THEN DecodeErr(E_INVALID_DIGIT)
         ELSE IF \E i \in DOMAIN digits : digits[i] \notin Digits
              THEN DecodeErr(E_INVALID_DIGIT)
         ELSE DecodeOk(Decimal(digits))

\* enum ServiceIdentifier: <<discriminant, variant>>
ServiceIdentifier ==
    { <<1, "Message">>, <<2, "LoginRequest">>, <<3, "Select">>, <<5, "Quit">>,
      <<6, "Logout">>, <<14, "RemoveTerminalRequest">>, <<16, "SystemLogout">>,
      <<21, "MessageAck">>, <<22, "LoginAck">>, <<23, "SelectAck">>,
      <<25, "QuitAck">>, <<26, "LogoutAck">>, <<42, "LoginNegativeAck">>,
      <<43, "SelectNegativeAck">> }

\* num::FromPrimitive::from_u32 for ServiceIdentifier
from_u32(n) ==
    IF \E e \in ServiceIdentifier : e[1] = n
    THEN DecodeOk((CHOOSE e \in ServiceIdentifier : e[1] = n)[2])
    ELSE DecodeErr(E_SERVICE_UNKNOWN)

\* BasicHeader::new with an empty logical terminal
BasicHeader_new_no_terminal ==
    [ application_identifier |-> <<"F">>,
      service_identifier |-> "Message",
      logical_terminal |-> <<>>,
      session_number |-> 0,
      sequence_number |-> 0 ]

\* BasicHeader::new
BasicHeader_new ==
    [ application_identifier |-> <<"F">>,
      service_identifier |-> "Message",
      logical_terminal |-> <<" ", " ", " ", " ", " ", " ", " ", " ", " ", " ", " ", " ">>,
      session_number |-> 0,
      sequence_number |-> 0 ]

\* BasicHeader::from_raw that reads the logical terminal one character short
BasicHeader_from_raw_narrow(content) ==
    LET application_identifier == n_chars(content, 0, 1)
        service_identifier_raw == n_chars(content, application_identifier.pos, 2)
        logical_terminal == n_chars(content, service_identifier_raw.pos, 11)
        session_raw == n_chars(content, logical_terminal.pos, 4)
        sequence_raw == n_chars(content, session_raw.pos, 6)
    IN IF ~(application_identifier.ok /\ service_identifier_raw.ok /\ logical_terminal.ok
            /\ session_raw.ok /\ sequence_raw.ok)
       THEN DecodeErr(E_EOS)
       ELSE LET session_number == parse_u32(session_raw.val)
                sequence_number == parse_u32(sequence_raw.val)
                service_identifier_num == parse_u32(service_identifier_raw.val)
            IN IF ~(session_number.ok /\ sequence_number.ok /\ service_identifier_num.ok)
               THEN DecodeErr(E_INVALID_DIGIT)
               ELSE IF ~from_u32(service_identifier_num.val).ok
               THEN DecodeErr(E_SERVICE_UNKNOWN)
               ELSE DecodeOk([ application_identifier |-> application_identifier.val,
                               service_identifier |-> from_u32(service_identifier_num.val).val,
                               logical_terminal |-> logical_terminal.val,
                               session_number |-> session_number.val,
                               sequence_number |-> sequence_number.val ])

\* BasicHeader::from_raw, each '?' in the order of the code
BasicHeader_from_raw(content) ==
    LET application_identifier == n_chars(content, 0, 1) IN
    IF ~application_identifier.ok THEN DecodeErr(E_EOS) ELSE
    LET service_identifier_raw == n_chars(content, application_identifier.pos, 2) IN
    IF ~service_identifier_raw.ok THEN DecodeErr(E_EOS) ELSE
    LET logical_terminal == n_chars(content, service_identifier_raw.pos, 12) IN
    IF ~logical_terminal.ok THEN DecodeErr(E_EOS) ELSE
    LET session_raw == n_chars(content, logical_terminal.pos, 4) IN
    IF ~session_raw.ok THEN DecodeErr(E_EOS) ELSE
    LET session_number == parse_u32(session_raw.val) IN
    IF ~session_number.ok THEN DecodeErr(session_number.err) ELSE
    LET sequence_raw == n_chars(content, session_raw.pos, 6) IN
    IF ~sequence_raw.ok THEN DecodeErr(E_EOS) ELSE
    LET sequence_number == parse_u32(sequence_raw.val) IN
    IF ~sequence_number.ok THEN DecodeErr(sequence_number.err) ELSE
    LET service_identifier_num == parse_u32(service_identifier_raw.val) IN
    IF ~service_identifier_num.ok THEN DecodeErr(E_SERVICE_CONVERT) ELSE
    LET service_identifier == from_u32(service_identifier_num.val) IN
    IF ~service_identifier.ok THEN DecodeErr(service_identifier.err) ELSE
    DecodeOk([ application_identifier |-> application_identifier.val,
               service_identifier |-> service_identifier.val,
               logical_terminal |-> logical_terminal.val,
               session_number |-> session_number.val,
               sequence_number |-> sequence_number.val ])

E_DIRECTION == "Invalid direction"
E_SENDER_DATE == "Cannot parse sender date/time"
E_RECEIVER_DATE == "Cannot parse receiver date/time"

\* char::is_whitespace, on the characters of the model
Whitespace == {" ", CR, LF}

\* chrono, numeric item of width 2: leading whitespace is skipped, then one or
\* two decimal digits are taken
RECURSIVE scan_number(_, _)
scan_number(s, p) ==
    IF p >= Len(s) THEN [ok |-> FALSE, val |-> 0, pos |-> p]
    ELSE IF s[p + 1] \in Whitespace THEN scan_number(s, p + 1)
    ELSE IF s[p + 1] \notin Digits THEN [ok |-> FALSE, val |-> 0, pos |-> p]
    ELSE IF p + 1 < Len(s) /\ s[p + 2] \in Digits
         THEN [ok |-> TRUE, val |-> DigitVal(s[p + 1]) * 10 + DigitVal(s[p + 2]), pos |-> p + 2]
    ELSE [ok |-> TRUE, val |-> DigitVal(s[p + 1]), pos |-> p + 1]

is_leap_year(year) == year % 4 = 0 /\ (year % 100 # 0 \/ year % 400 = 0)

days_in_month(year, month) ==
    IF month = 2 THEN (IF is_leap_year(year) THEN 29 ELSE 28)
    ELSE IF month \in {4, 6, 9, 11} THEN 30
    ELSE 31

\* NaiveDateTime::parse_from_str(s, "%y%m%d%H%M")
parse_from_str(s) ==
    LET y == scan_number(s, 0)
        m == scan_number(s, y.pos)
        d == scan_number(s, m.pos)
        H == scan_number(s, d.pos)
        M == scan_number(s, H.pos)
    IN IF ~(y.ok /\ m.ok /\ d.ok /\ H.ok /\ M.ok) \/ M.pos # Len(s)
       THEN DecodeErr("ParseError")
       ELSE LET year == IF y.val < 70 THEN 2000 + y.val ELSE 1900 + y.val IN
            IF ~(m.val \in 1..12) \/ ~(d.val \in 1..days_in_month(year, m.val))
               \/ H.val > 23 \/ M.val > 59
            THEN DecodeErr("ParseError")
            ELSE DecodeOk([ year |-> year, month |-> m.val, day |-> d.val,
                            hour |-> H.val, minute |-> M.val ])

\* an optional read that takes what is left when fewer characters remain
n_chars_or_rest(d, p, chars) ==
    IF p + chars > Len(d) THEN Ok(SubSeq(d, p + 1, Len(d)), Len(d)) ELSE n_chars(d, p, chars)

\* parser.n_chars(chars).ok().unwrap_or("".to_string())
n_chars_or_empty(d, p, chars) ==
    LET r == n_chars(d, p, chars) IN IF r.ok THEN r ELSE Ok(<<>>, r.pos)

\* every direction is taken as output
is_output_any(direction) == TRUE

is_input(direction) == direction = "I"

is_output(direction) == direction = "O"

\* ApplicationHeader::from_raw, the branch of direction 'I'
InputData_from_raw(content, message_type, p) ==
    LET destination == n_chars(content, p, 12) IN
    IF ~destination.ok THEN DecodeErr(E_EOS) ELSE
    LET priority == n_chars(content, destination.pos, 1) IN
    IF ~priority.ok THEN DecodeErr(E_EOS) ELSE
    LET delivery_monitoring == n_chars_or_empty(content, priority.pos, 1)
        obsolescence_period == n_chars_or_empty(content, delivery_monitoring.pos, 3)
    IN DecodeOk([ variant |-> "Input",
                  message_type |-> message_type,
                  destination |-> destination.val,
                  priority |-> priority.val,
                  delivery_monitoring |-> delivery_monitoring.val,
                  obsolescence_period |-> obsolescence_period.val ])

\* ApplicationHeader::from_raw, the branch of direction 'O'
OutputData_from_raw(content, message_type, p) ==
    LET sender_time == n_chars(content, p, 4) IN
    IF ~sender_time.ok THEN DecodeErr(E_EOS) ELSE
    LET sender_date == n_chars(content, sender_time.pos, 6) IN
    IF ~sender_date.ok THEN DecodeErr(E_EOS) ELSE
    LET sender_date_time == parse_from_str(sender_date.val \o sender_time.val) IN
    IF ~sender_date_time.ok THEN DecodeErr(E_SENDER_DATE) ELSE
    LET sender_address == n_chars(content, sender_date.pos, 12) IN
    IF ~sender_address.ok THEN DecodeErr(E_EOS) ELSE
    LET session_number == n_chars(content, sender_address.pos, 4) IN
    IF ~session_number.ok THEN DecodeErr(E_EOS) ELSE
    LET sequence_number == n_chars(content, session_number.pos, 6) IN
    IF ~sequence_number.ok THEN DecodeErr(E_EOS) ELSE
    LET receiver_date == n_chars(content, sequence_number.pos, 6) IN
    IF ~receiver_date.ok THEN DecodeErr(E_EOS) ELSE
    LET receiver_time == n_chars(content, receiver_date.pos, 4) IN
    IF ~receiver_time.ok THEN DecodeErr(E_EOS) ELSE
    LET receiver_date_time == parse_from_str(receiver_date.val \o receiver_time.val) IN
    IF ~receiver_date_time.ok THEN DecodeErr(E_RECEIVER_DATE) ELSE
    LET message_priority == n_chars(content, receiver_time.pos, 1) IN
    IF ~message_priority.ok THEN DecodeErr(E_EOS) ELSE
    DecodeOk([ variant |-> "Output",
               message_type |-> message_type,
               sender_datetime |-> sender_date_time.val,
               sender_address |-> sender_address.val,
               session_number |-> session_number.val,
               sequence_number |-> sequence_number.val,
               receiver_datetime |-> receiver_date_time.val,
               message_priority |-> message_priority.val ])

\* ApplicationHeader::Empty
ApplicationHeader_Empty == [variant |-> "Empty"]

ApplicationHeader_from_raw(content) ==
    LET direction == next(content, 0) IN
    IF ~direction.ok THEN DecodeErr(E_EOS) ELSE
    LET message_type == n_chars(content, direction.pos, 3) IN
    IF ~message_type.ok THEN DecodeErr(E_EOS) ELSE
    IF is_input(direction.val)
    THEN InputData_from_raw(content, message_type.val, message_type.pos)
    ELSE IF is_output(direction.val)
    THEN OutputData_from_raw(content, message_type.val, message_type.pos)
    ELSE DecodeErr(E_DIRECTION)

\* Option<String>
None == <<>>
Some(v) == <<v>>

\* str::split("}")
RECURSIVE split_loop(_, _, _, _)
split_loop(s, i, cur, acc) ==
    IF i > Len(s) THEN Append(acc, cur)
    ELSE IF s[i] = CLOSE THEN split_loop(s, i + 1, <<>>, Append(acc, cur))
    ELSE split_loop(s, i + 1, Append(cur, s[i]), acc)

split(s) == split_loop(s, 1, <<>>, <<>>)

\* tk.trim().is_empty()
trim_is_empty(tk) == \A i \in DOMAIN tk : tk[i] \in Whitespace

\* tk.split_once(":").unwrap_or((tk, ""))
split_once(tk) ==
    IF \E i \in DOMAIN tk : tk[i] = COLON
    THEN LET i == CHOOSE i \in DOMAIN tk : tk[i] = COLON /\ \A j \in 1..(i - 1) : tk[j] # COLON
         IN <<SubSeq(tk, 1, i - 1), SubSeq(tk, i + 1, Len(tk))>>
    ELSE <<tk, <<>>>>

\* collect() into a HashMap: a later entry replaces an earlier one of the same key
RECURSIVE collect(_, _)
collect(tks, i) ==
    IF i = 0 THEN EmptyMap
    ELSE IF trim_is_empty(tks[i]) THEN collect(tks, i - 1)
    ELSE LET kv == split_once(Tail(tks[i])) IN Insert(collect(tks, i - 1), kv[1], kv[2])

read_sys_block_fields(content) == collect(split(content), Len(split(content)))

\* the tags of UserHeader and their fields, in the order of to_raw
USER_HEADER_TAGS ==
    << <<<<"1", "0", "3">>, "service_identifier">>,
       <<<<"1", "1", "3">>, "banking_priority">>,
       <<<<"1", "0", "8">>, "message_user_reference">>,
       <<<<"1", "1", "9">>, "validation_flag">>,
       <<<<"4", "2", "3">>, "balance_checkpoint_date_time">>,
       <<<<"1", "0", "6">>, "mir">>,
       <<<<"4", "2", "4">>, "related_reference">>,
       <<<<"1", "1", "1">>, "service_type_identifier">>,
       <<<<"1", "2", "1">>, "uetr">>,
       <<<<"1", "1", "5">>, "payment_release_information_receiver_fin_copy">>,
       <<<<"1", "6", "5">>, "payment_release_information_receiver_fin_inform">>,
       <<<<"4", "3", "3">>, "screening_information_receiver">>,
       <<<<"4", "3", "4">>, "payment_controls_information_for_receiver">> >>

\* the tags of Trailer and their fields, in the order of to_raw
TRAILER_TAGS ==
    << <<<<"P", "A", "C">>, "pac">>,
       <<<<"C", "H", "K">>, "chk">>,
       <<<<"S", "Y", "S">>, "sys">>,
       <<<<"T", "N", "G">>, "tng">>,
       <<<<"P", "D", "E">>, "pde">>,
       <<<<"P", "D", "M">>, "pdm">>,
       <<<<"D", "L", "M">>, "dlm">>,
       <<<<"M", "R", "F">>, "mrf">> >>

TagsOf(table) == {table[i][1] : i \in DOMAIN table}
FieldsOf(table) == {table[i][2] : i \in DOMAIN table}
TagOfField(table, f) == (CHOOSE i \in DOMAIN table : table[i][2] = f)

\* HashMap::remove, the returned Option
remove(fields, tag) == IF tag \in DOMAIN fields THEN Some(fields[tag]) ELSE None

\* the map that is left when nothing is taken out of it
rest_all(fields, table) == fields

\* the map that is left after the remove calls on the tags of the table
rest(fields, table) == [k \in DOMAIN fields \ TagsOf(table) |-> fields[k]]

\* the struct literal of from_raw: one remove per known tag, unk_fields the rest
header_from_fields(fields, table) ==
    [f \in FieldsOf(table) \cup {"unk_fields"} |->
        IF f = "unk_fields" THEN rest(fields, table)
        ELSE remove(fields, table[TagOfField(table, f)][1])]

UserHeader_new ==
    [f \in FieldsOf(USER_HEADER_TAGS) \cup {"unk_fields"} |->
        IF f = "unk_fields" THEN EmptyMap ELSE None]

UserHeader_from_raw(content) ==
    DecodeOk(header_from_fields(read_sys_block_fields(content), USER_HEADER_TAGS))

Trailer_new ==
    [f \in FieldsOf(TRAILER_TAGS) \cup {"unk_fields"} |->
        IF f = "unk_fields" THEN EmptyMap ELSE None]

Trailer_from_raw(msg) ==
    DecodeOk(header_from_fields(read_sys_block_fields(msg), TRAILER_TAGS))

\* format!("{{{k}:{v}}}")
format_entry(k, v) == <<OPEN>> \o k \o <<COLON>> \o v \o <<CLOSE>>

\* the "if let Some(..)" pushes of to_raw, in the order of the code
RECURSIVE push_known(_, _, _)
push_known(h, table, i) ==
    IF i = 0 THEN <<>>
    ELSE push_known(h, table, i - 1)
         \o (IF h[table[i][2]] # None THEN format_entry(table[i][1], h[table[i][2]][1]) ELSE <<>>)

\* unk_fields.iter().for_each(..): order is the order the HashMap iterates in
RECURSIVE push_unknown(_, _, _)
push_unknown(h, order, i) ==
    IF i = 0 THEN <<>>
    ELSE push_unknown(h, order, i - 1) \o format_entry(order[i], h.unk_fields[order[i]])

\* the orders a HashMap with these keys may iterate in
IterOrders(m) ==
    { o \in [1..Cardinality(DOMAIN m) -> DOMAIN m] : \A i, j \in DOMAIN o : i # j => o[i] # o[j] }

UserHeader_to_raw(h, order) ==
    <<OPEN, "3", COLON>>
        \o push_known(h, USER_HEADER_TAGS, Len(USER_HEADER_TAGS))
        \o push_unknown(h, order, Len(order))
        \o <<CLOSE>>

Trailer_to_raw(h, order) ==
    <<OPEN, "3", COLON>>
        \o push_known(h, TRAILER_TAGS, Len(TRAILER_TAGS))
        \o push_unknown(h, order, Len(order))
        \o <<CLOSE>>

\* no call of parse is under way
Unset == [variant |-> "Unset"]

NoParse ==
    /\ origin = Unset
    /\ basic_header = Unset
    /\ application_header = Unset
    /\ user_header = Unset
    /\ trailer = Unset
    /\ ret = Unset

Init ==
    /\ data \in Inputs
    /\ position = 0
    /\ pc = "loop"
    /\ blocks = EmptyMap
    /\ result = "none"
    /\ block_type = ""
    /\ body_start = 0
    /\ nesting_level = 0
    /\ cur_content = <<>>
    /\ pos = 0
    /\ line = <<>>
    /\ last = NoCall
    /\ NoParse

\* read_blocks: the loop ends at the end of the input and the blocks are returned
LoopExit ==
    /\ pc = "loop"
    /\ ~has_more(data, position)
    /\ pc' = "done"
    /\ result' = "Ok"
    /\ UNCHANGED <<data, position, blocks, block_type, body_start,
                   nesting_level, cur_content, pos, line, last, parse_vars>>

\* read_blocks: the character that must be '{'
ReadStart ==
    /\ pc = "loop"
    /\ has_more(data, position)
    /\ LET start == next(data, position) IN
        /\ position' = start.pos
        /\ IF ~(start.ok /\ start.val = OPEN)
           THEN Fail(E_START)
           ELSE pc' = "label" /\ UNCHANGED result
    /\ UNCHANGED <<data, blocks, block_type, body_start,
                   nesting_level, cur_content, pos, line, last, parse_vars>>

\* read_blocks: the label character
ReadLabel ==
    /\ pc = "label"
    /\ LET start == next(data, position) IN
        /\ position' = start.pos
        /\ IF ~start.ok
           THEN Fail(E_LABEL) /\ UNCHANGED block_type
           ELSE pc' = "separator" /\ block_type' = start.val /\ UNCHANGED result
    /\ UNCHANGED <<data, blocks, body_start, nesting_level, cur_content, pos, line, last, parse_vars>>

\* read_blocks: the character that must be ':'
ReadSeparator ==
    /\ pc = "separator"
    /\ LET separator == next(data, position) IN
        /\ position' = separator.pos
        /\ IF ~IsSeparator(separator)
           THEN Fail(E_SEPARATOR)
           ELSE pc' = "dispatch" /\ UNCHANGED result
    /\ UNCHANGED <<data, blocks, block_type, body_start,
                   nesting_level, cur_content, pos, line, last, parse_vars>>

\* read_blocks: a block read with until('}')
ReadFlat ==
    /\ pc = "dispatch"
    /\ IsFlat(block_type)
    /\ LET content == until(data, position, CLOSE) IN
        /\ position' = content.pos
        /\ blocks' = Insert(blocks, block_type, content.val)
    /\ body_start' = position
    /\ pc' = "loop"
    /\ UNCHANGED <<data, result, block_type, nesting_level, cur_content, pos, line, last, parse_vars>>

\* read_system_block is entered
EnterSystemBlock ==
    /\ pc = "dispatch"
    /\ IsSystem(block_type)
    /\ nesting_level' = 1
    /\ cur_content' = <<>>
    /\ body_start' = position
    /\ pc' = "system"
    /\ UNCHANGED <<data, position, blocks, result, block_type, pos, line, last, parse_vars>>

\* read_system_block: one turn of the loop that reads a character
SystemChar ==
    /\ pc = "system"
    /\ has_more(data, position)
    /\ LET c == next(data, position).val IN
        /\ position' = position + 1
        /\ IF c = OPEN
           THEN IF TooDeep(nesting_level)
                THEN /\ Fail(E_NESTED)
                     /\ UNCHANGED <<nesting_level, cur_content, blocks>>
                ELSE /\ nesting_level' = nesting_level + 1
                     /\ cur_content' = PushChar(cur_content, c)
                     /\ UNCHANGED <<pc, result, blocks>>
           ELSE IF c = CLOSE
           THEN /\ nesting_level' = nesting_level - 1
                /\ IF nesting_level' = 0
                   THEN \* is_balanced: the block is returned and inserted
                        /\ blocks' = Insert(blocks, block_type, cur_content)
                        /\ pc' = "loop"
                        /\ UNCHANGED <<cur_content, result>>
                   ELSE /\ cur_content' = PushChar(cur_content, c)
                        /\ UNCHANGED <<pc, result, blocks>>
           ELSE /\ cur_content' = PushChar(cur_content, c)
                /\ UNCHANGED <<pc, result, blocks, nesting_level>>
    /\ UNCHANGED <<data, block_type, body_start, pos, line, last, parse_vars>>

\* read_system_block returning what it has read at the end of the input
SystemEosLenient ==
    /\ pc = "system"
    /\ ~has_more(data, position)
    /\ blocks' = Insert(blocks, block_type, cur_content)
    /\ pc' = "loop"
    /\ UNCHANGED <<data, position, result, block_type, body_start,
                   nesting_level, cur_content, pos, line, last, parse_vars>>

\* read_system_block: the input ends while is_balanced is false
SystemEos ==
    /\ pc = "system"
    /\ ~has_more(data, position)
    /\ Fail(E_SYSTEM_EOS)
    /\ UNCHANGED <<data, position, blocks, block_type, body_start,
                   nesting_level, cur_content, pos, line, last, parse_vars>>

\* read_message_text is entered: the first line after {4: is skipped
EnterMessageText ==
    /\ pc = "dispatch"
    /\ IsText(block_type)
    /\ cur_content' = <<>>
    /\ body_start' = position
    /\ LET skipped == next_line(data, position) IN
        /\ position' = skipped.pos
        /\ IF ~skipped.ok
           THEN Fail(E_TEXT_LINE)
           ELSE pc' = "text" /\ UNCHANGED result
    /\ UNCHANGED <<data, blocks, block_type, nesting_level, pos, line, last, parse_vars>>

\* read_message_text returning what it has read at the end of the input
TextEosLenient ==
    /\ pc = "text"
    /\ ~has_more(data, position)
    /\ blocks' = Insert(blocks, block_type, cur_content)
    /\ pc' = "loop"
    /\ UNCHANGED <<data, position, result, block_type, body_start,
                   nesting_level, cur_content, pos, line, last, parse_vars>>

\* read_message_text: the input ends before the sentinel
TextEos ==
    /\ pc = "text"
    /\ ~has_more(data, position)
    /\ Fail(E_TEXT_EOS)
    /\ UNCHANGED <<data, position, blocks, block_type, body_start,
                   nesting_level, cur_content, pos, line, last, parse_vars>>

\* read_message_text: the position is saved and a line is read
TextReadLine ==
    /\ pc = "text"
    /\ has_more(data, position)
    /\ pos' = position
    /\ LET l == next_line(data, position) IN
        /\ position' = l.pos
        /\ IF ~l.ok
           THEN Fail(E_TEXT_LINE) /\ UNCHANGED line
           ELSE pc' = "text_line" /\ line' = l.val /\ UNCHANGED result
    /\ UNCHANGED <<data, blocks, block_type, body_start, nesting_level, cur_content, last, parse_vars>>

\* the sentinel line sends the cursor back to the '{' that opened the block
TextSentinelRestart ==
    /\ pc = "text_line"
    /\ starts_with(line, SENTINEL)
    /\ position' = set_position(data, position, body_start - Len(<<OPEN, "4", COLON>>))
    /\ blocks' = Insert(blocks, block_type, cur_content)
    /\ pc' = "loop"
    /\ UNCHANGED <<data, result, block_type, body_start,
                   nesting_level, cur_content, pos, line, last, parse_vars>>

\* read_message_text: the line starts with -}, the cursor is set after it
\* and the block is returned and inserted
TextSentinel ==
    /\ pc = "text_line"
    /\ starts_with(line, SENTINEL)
    /\ position' = set_position(data, position, AfterSentinel(pos))
    /\ blocks' = Insert(blocks, block_type, cur_content)
    /\ pc' = "loop"
    /\ UNCHANGED <<data, result, block_type, body_start,
                   nesting_level, cur_content, pos, line, last, parse_vars>>

\* read_message_text: the line and "\r\n" are appended to the content
TextAppend ==
    /\ pc = "text_line"
    /\ ~starts_with(line, SENTINEL)
    /\ cur_content' = AppendLine(cur_content, line)
    /\ pc' = "text"
    /\ UNCHANGED <<data, position, blocks, result, block_type, body_start,
                   nesting_level, pos, line, last, parse_vars>>

Next ==
    \/ LoopExit
    \/ ReadStart
    \/ ReadLabel
    \/ ReadSeparator
    \/ ReadFlat
    \/ EnterSystemBlock
    \/ SystemChar
    \/ SystemEos
    \/ EnterMessageText
    \/ TextEos
    \/ TextReadLine
    \/ TextSentinel
    \/ TextAppend

Spec == Init /\ [][Next]_vars

\* read_blocks runs as one sequential call: while a step of it is possible the
\* call takes it
FairSpec == Spec /\ WF_vars(Next)

---------------------------------------------------------------------------
(* The cursor alone, under any sequence of calls.                          *)

Call(op, arg, r) ==
    [op |-> op, arg |-> arg, from |-> position, ok |-> r.ok, val |-> r.val]

CursorInit ==
    /\ data \in CursorInputs
    /\ position = 0
    /\ pc = "cursor"
    /\ blocks = EmptyMap
    /\ result = "none"
    /\ block_type = ""
    /\ body_start = 0
    /\ nesting_level = 0
    /\ cur_content = <<>>
    /\ pos = 0
    /\ line = <<>>
    /\ last = NoCall
    /\ NoParse

FramerIdle ==
    UNCHANGED <<data, pc, blocks, result, block_type, body_start,
                nesting_level, cur_content, pos, line, parse_vars>>

CursorNext ==
    /\ pc = "cursor"
    /\ LET r == next(data, position) IN
        position' = r.pos /\ last' = Call("next", 0, r)
    /\ FramerIdle

CursorPeek ==
    /\ pc = "cursor"
    /\ LET r == peek(data, position) IN
        position' = r.pos /\ last' = Call("peek", 0, r)
    /\ FramerIdle

\* n_chars, also with the largest argument; a panic ends the use of the cursor
CursorNChars ==
    /\ pc = "cursor"
    /\ \E chars \in (0..MaxArg) \cup {USIZE_MAX} : \E overflow_checks \in BOOLEAN :
        LET r == n_chars_usize(data, position, chars, overflow_checks) IN
        /\ position' = r.pos
        /\ last' = Call("n_chars", chars, r)
        /\ pc' = IF ~r.ok /\ r.val = PANIC THEN "panic" ELSE pc
    /\ UNCHANGED <<data, blocks, result, block_type, body_start,
                   nesting_level, cur_content, pos, line, parse_vars>>

CursorUntil ==
    /\ pc = "cursor"
    /\ \E c \in CursorChars :
        LET r == until(data, position, c) IN
        position' = r.pos /\ last' = Call("until", c, r)
    /\ FramerIdle

CursorNextLine ==
    /\ pc = "cursor"
    /\ LET r == next_line(data, position) IN
        position' = r.pos /\ last' = Call("next_line", 0, r)
    /\ FramerIdle

CursorPeekLine ==
    /\ pc = "cursor"
    /\ LET r == peek_line(data, position) IN
        position' = r.pos /\ last' = Call("peek_line", 0, r)
    /\ FramerIdle

\* next_line called again and again while has_more, the lines kept in order
RECURSIVE read_lines(_, _, _)
read_lines(d, p, lines) ==
    IF ~has_more(d, p) THEN Ok(lines, p)
    ELSE LET r == next_line(d, p) IN
         IF ~r.ok THEN Err(r.pos) ELSE read_lines(d, r.pos, Append(lines, r.val))

CursorReadLines ==
    /\ pc = "cursor"
    /\ LET r == read_lines(data, position, <<>>) IN
        position' = r.pos /\ last' = Call("read_lines", 0, r)
    /\ FramerIdle

CursorSetPosition ==
    /\ pc = "cursor"
    /\ \E p \in 0..MaxArg :
        /\ position' = set_position(data, position, p)
        /\ last' = [op |-> "set_position", arg |-> p, from |-> position,
                    ok |-> TRUE, val |-> <<>>]
    /\ FramerIdle

CursorStep ==
    \/ CursorNext
    \/ CursorPeek
    \/ CursorNChars
    \/ CursorUntil
    \/ CursorNextLine
    \/ CursorPeekLine
    \/ CursorReadLines
    \/ CursorSetPosition

CursorSpec == CursorInit /\ [][CursorStep]_vars

---------------------------------------------------------------------------
(* SwiftMtParser::parse: the inputs of the model *)

\* most entries of the content of a block 3 or 5
MaxEntries == 2

\* most fields that are set in a header that is encoded
MaxFields == 2

RECURSIVE Prefixes(_)
Prefixes(s) == IF s = <<>> THEN {<<>>} ELSE {s} \cup Prefixes(SubSeq(s, 1, Len(s) - 1))

Block(label, content) == <<OPEN, label, COLON>> \o content \o <<CLOSE>>

Trailing ==
    { <<>>,
      <<"Z">> }

BasicContents ==
    { a \o s \o t \o n \o q \o z :
        a \in { <<"F">>,
               <<"A">> },
        s \in { <<"0", "1">>,
               <<"4", "3">>,
               <<"0", "4">>,
               <<"+", "1">>,
               <<"1", "a">> },
        t \in { <<"F", "O", "O", "B", "A", "R", "X", "X", "A", "X", "X", "X">>,
               <<"B", "A", "N", "K", " ", "E", "B", "B", "0", "X", "X", "1">> },
        n \in { <<"0", "0", "0", "0">>,
               <<"0", "0", "1", "2">>,
               <<"+", "1", "2", "3">>,
               <<"0", "0", "a", "0">> },
        q \in { <<"0", "0", "0", "0", "0", "0">>,
               <<"0", "0", "0", "3", "4", "5">>,
               <<"+", "0", "0", "0", "0", "1">>,
               <<"1", "2", "3", "4", "5", "x">> },
        z \in Trailing }
    \cup Prefixes(<<"F", "0", "1", "F", "O", "O", "B", "A", "R", "X", "X", "A", "X", "X", "X", "0", "0", "1", "2", "0", "0", "0", "3", "4", "5">>)

InputMandatory == <<"I", "1", "0", "3", "B", "A", "N", "K", "D", "E", "F", "F", "X", "X", "X", "X", "N">>
OutputRest == <<"B", "A", "N", "K", "B", "E", "B", "B", "A", "X", "X", "X", "2", "2", "2", "2", "1", "2", "3", "4", "5", "6">>

InputTails ==
    { <<>>,
      <<"2">>,
      <<"2", "0">>,
      <<"2", "0", "2">>,
      <<"2", "0", "2", "0">>,
      <<"2", "0", "2", "0", "1">> }
Dates ==
    { <<"9", "7", "0", "1", "0", "3">>,
      <<"0", "0", "0", "2", "2", "9">>,
      <<"0", "1", "0", "2", "2", "9">>,
      <<"9", "7", "1", "3", "0", "3">>,
      <<"6", "9", "0", "4", "3", "1">> }
Times ==
    { <<"1", "2", "0", "0">>,
      <<"2", "3", "5", "9">>,
      <<"2", "4", "0", "0">>,
      <<"1", "2", "6", "0">> }
OutputValid ==
    <<"O", "1", "0", "3", "1", "2", "0", "0", "9", "7", "0", "1", "0", "3", "B", "A", "N", "K", "B", "E", "B", "B", "A", "X", "X", "X", "2", "2", "2", "2", "1", "2", "3", "4", "5", "6", "9", "7", "0", "1", "0", "3", "1", "2", "0", "1", "N">>

InputContents ==
    { InputMandatory \o t : t \in InputTails } \cup Prefixes(InputMandatory)

OutputContents ==
    { <<"O", "1", "0", "3">> \o st \o sd \o OutputRest \o rd \o rt \o <<"N">> \o z :
        st \in Times, sd \in Dates, rd \in Dates, rt \in Times, z \in Trailing }
    \cup Prefixes(OutputValid)

\* contents with the first character replaced
ApplicationContents ==
    { <<d>> \o Tail(c) : d \in {"I", "O", "X", "i"},
                         c \in { InputMandatory \o t : t \in InputTails } \cup {OutputValid} }
    \cup InputContents \cup OutputContents

\* the entries the content of a block 3 or 5 is made of
TagEntries ==
    { <<"{", "1", "0", "3", ":", "A", "B", "C", "}">>,
      <<"{", "1", "0", "3", ":", "D", "}">>,
      <<"{", "1", "0", "8", ":", "}">>,
      <<"{", "4", "3", "4", ":", "x", "}">>,
      <<"{", "P", "A", "C", ":", "P", "}">>,
      <<"{", "M", "R", "F", ":", "a", ":", "b", "}">>,
      <<"{", "C", "H", "K", "}">>,
      <<"{", "Z", "Z", "Z", ":", "1", "}">>,
      <<"{", "7", ":", "}">>,
      <<" ">> }

RECURSIVE EntrySeqs(_)
EntrySeqs(n) ==
    IF n = 0 THEN {<<>>}
    ELSE EntrySeqs(n - 1) \cup { c \o e : c \in EntrySeqs(n - 1), e \in TagEntries }

TagContents == EntrySeqs(MaxEntries)

\* input that has one block
OneBlock ==
    { Block("1", c) : c \in BasicContents }
    \cup { Block("2", c) : c \in ApplicationContents }
    \cup { Block("3", c) : c \in TagContents }
    \cup { Block("5", c) : c \in TagContents }

Absent == {<<>>}

\* input made of blocks that are absent, decodable or not decodable
ManyBlocks ==
    { b1 \o b2 \o b3 \o b4 \o b5 \o z :
        b1 \in Absent \cup {Block("1", <<"F", "0", "1", "F", "O", "O", "B", "A", "R", "X", "X", "A", "X", "X", "X", "0", "0", "0", "0", "0", "0", "0", "0", "0", "0">>),
                            Block("1", <<"F", "0", "1", "F", "O", "O", "B", "A", "R", "X", "X", "A", "X", "X", "X", "0", "0", "0", "0", "0", "0", "0", "0">>)},
        b2 \in Absent \cup {Block("2", InputMandatory), Block("2", <<"X">>)},
        b3 \in Absent \cup {Block("3", <<"{", "1", "0", "8", ":", "A", "}">>)},
        b4 \in Absent \cup {<<"{", "4", ":", CR, LF, "a", CR, LF, "-", "}">>},
        b5 \in Absent \cup {Block("5", <<"{", "C", "H", "K", ":", "1", "}">>)},
        z \in Absent \cup {<<"x">>} }

\* input on which the framer fails
Malformed ==
    { <<"{">>,
      <<"{", "1">>,
      <<"{", "1", "-">>,
      <<"{", "3", ":", "{">>,
      <<"{", "3", ":", "{", "{", "a", "}", "}">>,
      <<"{", "4", ":", CR, LF>>,
      <<"{", "4", ":", CR, LF, "a">>,
      <<"{", "4", ":", "a">>,
      <<"{", "a", "}">> }

ParseInputs == OneBlock \cup ManyBlocks \cup Malformed

FieldValues ==
    { <<>>,
      <<"A">>,
      <<"a", ":", "b">> }

UnknownKeys ==
    { <<"7">>,
      <<"Z", "Z", "Z">>,
      <<"1", "0", "3">> }

Maps(keys, values, n) ==
    { m \in UNION { [S -> values] : S \in SUBSET keys } : Cardinality(DOMAIN m) <= n }

\* the fields of the table that are set in the headers that are encoded
SomeFields(table) == {table[1][2], table[2][2], table[3][2], table[Len(table)][2]}

\* header values with at most MaxFields fields
Headers(table) ==
    { [f \in FieldsOf(table) \cup {"unk_fields"} |->
          IF f = "unk_fields" THEN ku[2]
          ELSE IF f \in DOMAIN ku[1] THEN Some(ku[1][f]) ELSE None] :
      ku \in { p \in Maps(SomeFields(table), FieldValues, MaxFields)
                      \X Maps(UnknownKeys, FieldValues, MaxFields) :
               Cardinality(DOMAIN p[1]) + Cardinality(DOMAIN p[2]) <= MaxFields } }

---------------------------------------------------------------------------
(* SwiftMtParser::parse *)

E_BASIC_HEADER == "Error reading basic header"
E_APPLICATION_HEADER == "Error reading application header"
E_USER_HEADER == "Error reading user header"

\* read_basic_header that falls back to the default header
read_basic_header_or_default(block) ==
    LET r == BasicHeader_from_raw(block) IN IF r.ok THEN r ELSE DecodeOk(BasicHeader_new)

read_basic_header(block) ==
    LET r == BasicHeader_from_raw(block)
    IN IF r.ok THEN r ELSE DecodeErr(<<E_BASIC_HEADER, r.err>>)

read_application_header(block) ==
    LET r == ApplicationHeader_from_raw(block)
    IN IF r.ok THEN r ELSE DecodeErr(<<E_APPLICATION_HEADER, r.err>>)

read_user_header(block) ==
    LET r == UserHeader_from_raw(block)
    IN IF r.ok THEN r ELSE DecodeErr(<<E_USER_HEADER, r.err>>)

read_trailer(block) ==
    LET r == Trailer_from_raw(block)
    IN IF r.ok THEN r ELSE DecodeErr(<<E_USER_HEADER, r.err>>)

ParseInit ==
    /\ data = <<>>
    /\ position = 0
    /\ pc = "start"
    /\ blocks = EmptyMap
    /\ result = "none"
    /\ block_type = ""
    /\ body_start = 0
    /\ nesting_level = 0
    /\ cur_content = <<>>
    /\ pos = 0
    /\ line = <<>>
    /\ last = NoCall
    /\ NoParse

framer_vars == <<position, blocks, result, block_type, body_start,
                 nesting_level, cur_content, pos, line, last>>

\* UserHeader::to_raw on a header value
EncodeUserHeader ==
    /\ pc = "start"
    /\ \E h \in Headers(USER_HEADER_TAGS) : \E order \in IterOrders(h.unk_fields) :
        /\ data' = UserHeader_to_raw(h, order)
        /\ origin' = [block |-> "3", header |-> h, order |-> order]
    /\ pc' = "encoded"
    /\ UNCHANGED <<framer_vars, basic_header, application_header, user_header, trailer, ret>>

\* Trailer::to_raw on a trailer value
EncodeTrailer ==
    /\ pc = "start"
    /\ \E h \in Headers(TRAILER_TAGS) : \E order \in IterOrders(h.unk_fields) :
        /\ data' = Trailer_to_raw(h, order)
        /\ origin' = [block |-> "5", header |-> h, order |-> order]
    /\ pc' = "encoded"
    /\ UNCHANGED <<framer_vars, basic_header, application_header, user_header, trailer, ret>>

\* parse is called: on an input of the model, or on the string that was encoded
CallParse ==
    /\ \/ pc = "start" /\ data' \in ParseInputs
       \/ pc = "encoded" /\ data' = data
    /\ pc' = "loop"
    /\ UNCHANGED <<framer_vars, parse_vars>>

\* parse: parse_blocks(msg)? has failed
FramingFailed ==
    /\ pc = "error"
    /\ ret' = DecodeErr(result)
    /\ pc' = "returned"
    /\ UNCHANGED <<data, framer_vars, origin, basic_header, application_header,
                   user_header, trailer>>

\* parse: let bh = ...?
ReadBasicHeader ==
    /\ pc = "done"
    /\ LET bh == IF "1" \in DOMAIN blocks THEN read_basic_header(blocks["1"])
                 ELSE DecodeOk(BasicHeader_new)
       IN IF bh.ok
          THEN basic_header' = bh.val /\ pc' = "block2" /\ UNCHANGED ret
          ELSE ret' = bh /\ pc' = "returned" /\ UNCHANGED basic_header
    /\ UNCHANGED <<data, framer_vars, origin, application_header, user_header, trailer>>

\* parse: let ah = ...?
ReadApplicationHeader ==
    /\ pc = "block2"
    /\ LET ah == IF "2" \in DOMAIN blocks THEN read_application_header(blocks["2"])
                 ELSE DecodeOk(ApplicationHeader_Empty)
       IN IF ah.ok
          THEN application_header' = ah.val /\ pc' = "block3" /\ UNCHANGED ret
          ELSE ret' = ah /\ pc' = "returned" /\ UNCHANGED application_header
    /\ UNCHANGED <<data, framer_vars, origin, basic_header, user_header, trailer>>

\* parse: let uh = ...?
ReadUserHeader ==
    /\ pc = "block3"
    /\ LET uh == IF "3" \in DOMAIN blocks THEN read_user_header(blocks["3"])
                 ELSE DecodeOk(UserHeader_new)
       IN IF uh.ok
          THEN user_header' = uh.val /\ pc' = "block5" /\ UNCHANGED ret
          ELSE ret' = uh /\ pc' = "returned" /\ UNCHANGED user_header
    /\ UNCHANGED <<data, framer_vars, origin, basic_header, application_header, trailer>>

\* parse: let tr = ...?, and the message that is returned
ReadTrailer ==
    /\ pc = "block5"
    /\ LET tr == IF "5" \in DOMAIN blocks THEN read_trailer(blocks["5"])
                 ELSE DecodeOk(Trailer_new)
       IN IF tr.ok
          THEN /\ trailer' = tr.val
               /\ ret' = DecodeOk([ application_header |-> application_header,
                                    basic_header |-> basic_header,
                                    user_header |-> user_header,
                                    trailer |-> tr.val ])
          ELSE ret' = tr /\ UNCHANGED trailer
    /\ pc' = "returned"
    /\ UNCHANGED <<data, framer_vars, origin, basic_header, application_header, user_header>>

ParseNext ==
    \/ EncodeUserHeader
    \/ EncodeTrailer
    \/ CallParse
    \/ LoopExit
    \/ ReadStart
    \/ ReadLabel
    \/ ReadSeparator
    \/ ReadFlat
    \/ EnterSystemBlock
    \/ SystemChar
    \/ SystemEos
    \/ EnterMessageText
    \/ TextEos
    \/ TextReadLine
    \/ TextSentinel
    \/ TextAppend
    \/ FramingFailed
    \/ ReadBasicHeader
    \/ ReadApplicationHeader
    \/ ReadUserHeader
    \/ ReadTrailer

ParseSpec == ParseInit /\ [][ParseNext]_vars

---------------------------------------------------------------------------
(* Reference definitions the properties are stated with.  They read the    *)
(* input directly and use none of the operations above.                    *)

AtEnd == position >= Len(data)
Cur == data[position + 1]

SystemLabels == {"3", "5", "S"}

\* the nesting counter after the characters of seg: 1 + #'{' - #'}'
RECURSIVE Depth(_)
Depth(seg) ==
    IF seg = <<>> THEN 1
    ELSE LET c == seg[Len(seg)]
             d == Depth(SubSeq(seg, 1, Len(seg) - 1))
         IN IF c = OPEN THEN d + 1 ELSE IF c = CLOSE THEN d - 1 ELSE d

\* mid is (line CRLF)*, the lines holding neither CR nor LF
WellFormedLines(mid) ==
    /\ mid = <<>> \/ (Len(mid) >= 2 /\ mid[Len(mid) - 1] = CR /\ mid[Len(mid)] = LF)
    /\ \A i \in 1..Len(mid) :
        /\ mid[i] = CR => (i < Len(mid) /\ mid[i + 1] = LF)
        /\ mid[i] = LF => (i > 1 /\ mid[i - 1] = CR)

\* the indices at which the lines of mid start
LineStarts(mid) == {1} \cup { i + 1 : i \in { j \in 1..Len(mid) : mid[j] = LF } }

NoSentinelLine(mid) ==
    \A s \in LineStarts(mid) :
        ~(s + 1 <= Len(mid) /\ mid[s] = DASH /\ mid[s + 1] = CLOSE)

\* body is CRLF (line CRLF)* '-}' and its '-}' is the first line that begins with '-}'
LineBody(body) ==
    /\ Len(body) >= 4
    /\ body[1] = CR /\ body[2] = LF
    /\ body[Len(body) - 1] = DASH /\ body[Len(body)] = CLOSE
    /\ WellFormedLines(SubSeq(body, 3, Len(body) - 2))
    /\ NoSentinelLine(SubSeq(body, 3, Len(body) - 2))

\* the state right after the body of a block with a label of ls has been read
BlockRead(ls) == pc = "loop" /\ block_type \in ls

---------------------------------------------------------------------------
(* Properties *)

\* C1: when the body of block 4 is CRLF (line CRLF)* '-}', the first line is
\* discarded and the content is the lines that follow, each with its "\r\n", up to
\* the first line that begins with '-}'; the cursor is left right after that '-}',
\* and such a body never ends in the end-of-stream error.
C1_TextContent ==
    \A k \in body_start..Len(data) :
        LineBody(SubSeq(data, body_start + 1, k)) =>
            /\ BlockRead({"4"}) =>
                /\ position = k
                /\ blocks["4"] = SubSeq(data, body_start + 3, k - 2)
            /\ ~(pc = "error" /\ block_type = "4" /\ result \in {E_TEXT_EOS, E_TEXT_LINE})

C1_Witness ==
    /\ BlockRead({"4"})
    /\ LineBody(SubSeq(data, body_start + 1, position))
    /\ blocks["4"] = <<"a", CR, LF>>

\* C2: the content of a nested block (3, 5, S) is every character after 'label:'
\* up to the '}' that brings the counter, started at 1, to 0; that '}' is consumed
\* and left out, the braces of the sub-blocks are part of the content.
C2_SystemContent ==
    BlockRead(SystemLabels) =>
        /\ position > body_start
        /\ data[position] = CLOSE
        /\ Depth(SubSeq(data, body_start + 1, position)) = 0
        /\ \A j \in body_start..(position - 1) : Depth(SubSeq(data, body_start + 1, j)) >= 1
        /\ blocks[block_type] = SubSeq(data, body_start + 1, position - 1)

C2_Witness ==
    /\ BlockRead(SystemLabels)
    /\ blocks[block_type] = <<OPEN, "a", CLOSE>>

\* C3 (as claimed): every label of the mapping is one of '1','2','3','4','5','S'.
C3_OnlyValidLabels ==
    \A l \in DOMAIN blocks : l \in VALID_BLOCKS

\* the terminator next_line obeys: the first CR immediately followed by LF
FirstCRLF(d, p) ==
    LET at == { i \in (p + 1)..(Len(d) - 1) : d[i] = CR /\ d[i + 1] = LF }
    IN IF at = {} THEN 0 ELSE CHOOSE i \in at : \A j \in at : i <= j

\* the terminator of the claim: the first LF, with the CR before it if there is one
FirstLF(d, p) ==
    LET at == { i \in (p + 1)..Len(d) : d[i] = LF }
    IN IF at = {} THEN 0 ELSE CHOOSE i \in at : \A j \in at : i <= j

\* C4 (as claimed): next_line returns the characters up to the first terminator,
\* LF alone or CRLF, and leaves the position just past it.
C4_LineEndsAtLfOrCrLf ==
    (last.op = "next_line" /\ last.from <= Len(data)) =>
        LET p == last.from
            lf == FirstLF(data, p)
            crlf == lf > p + 1 /\ data[lf - 1] = CR
        IN IF lf = 0
           THEN last.val = SubSeq(data, p + 1, Len(data)) /\ position = Len(data)
           ELSE /\ last.val = SubSeq(data, p + 1, IF crlf THEN lf - 2 ELSE lf - 1)
                /\ position = lf

\* C4 (amended): next_line returns the characters up to the first CR LF pair and
\* leaves the position just past the pair; an LF without a CR before it is kept in
\* the line; without a CR LF pair the rest of the input is returned and the position
\* is left at the end (where it was, when it was already at or past the end).
C4_LineEndsAtCrLf ==
    last.op = "next_line" =>
        LET p == last.from
            cr == FirstCRLF(data, p)
        IN /\ last.ok
           /\ IF cr = 0
              THEN /\ last.val = SubSeq(data, p + 1, Len(data))
                   /\ position = IF p > Len(data) THEN p ELSE Len(data)
              ELSE last.val = SubSeq(data, p + 1, cr - 1) /\ position = cr + 1

C4_Witness ==
    /\ last.op = "next_line"
    /\ data = <<LF, CR, LF>>
    /\ last.from = 0
    /\ last.val = <<LF>>
    /\ position = 3

\* C5 (as claimed): after any sequence of cursor calls 0 <= position <= len.
C5_PositionInRange ==
    0 <= position /\ position <= Len(data)

\* C6: when read_blocks returns the mapping, the cursor is at the end of the input.
C6_ConsumedWhenOk ==
    result = "Ok" => (pc = "done" /\ position = Len(data))

C6_Witness ==
    /\ result = "Ok"
    /\ position = Len(data)
    /\ Cardinality(DOMAIN blocks) >= 2

C8_OneLevelOnly ==
    /\ [](nesting_level <= 2)
    /\ [][(pc = "system" /\ ~AtEnd /\ Cur = OPEN /\ nesting_level # 1) =>
            (pc' = "error" /\ result' = E_NESTED /\ blocks' = blocks)]_vars

C8_Witness ==
    /\ pc = "error"
    /\ result = E_NESTED
    /\ nesting_level = 2

\* C9: in a nested block the end of the input before the counter is back to 0
\* makes the framer return an error, and no block is recorded for the label.
C9_SystemEosFails ==
    /\ [](pc = "system" => nesting_level >= 1)
    /\ [][(pc = "system" /\ AtEnd) =>
            (pc' = "error" /\ result' = E_SYSTEM_EOS /\ blocks' = blocks)]_vars

C9_Witness ==
    /\ pc = "error"
    /\ result = E_SYSTEM_EOS
    /\ cur_content # <<>>
    /\ block_type \notin DOMAIN blocks

\* C10: in block 4 the end of the input before a line that begins with '-}' has
\* been read makes the framer return an error, whatever was collected; block 4 is
\* only recorded when the input holds '-}'.
C10_TextEosFails ==
    /\ []("4" \in DOMAIN blocks =>
            \E i \in 1..(Len(data) - 1) : data[i] = DASH /\ data[i + 1] = CLOSE)
    /\ [][(pc = "text" /\ AtEnd) =>
            (pc' = "error" /\ result' = E_TEXT_EOS /\ blocks' = blocks)]_vars

C10_Witness ==
    /\ pc = "error"
    /\ result = E_TEXT_EOS
    /\ cur_content # <<>>

\* C11: the content of a flat block (1 or 2) is exactly the characters between
\* 'label:' and the next '}'; that '}' is consumed and left out, so the cursor is
\* right after it for the block that follows.
C11_FlatContent ==
    BlockRead({"1", "2"}) =>
        \A k \in (body_start + 1)..Len(data) :
            (data[k] = CLOSE /\ \A j \in (body_start + 1)..(k - 1) : data[j] # CLOSE) =>
                /\ blocks[block_type] = SubSeq(data, body_start + 1, k - 1)
                /\ position = k

C11_Witness ==
    /\ BlockRead({"1", "2"})
    /\ blocks[block_type] = <<"a">>
    /\ data[position] = CLOSE

\* the struct fields of UserHeader and Trailer that hold a known tag
UserHeaderFields ==
    { "service_identifier", "banking_priority", "message_user_reference",
      "validation_flag", "balance_checkpoint_date_time", "mir", "related_reference",
      "service_type_identifier", "uetr",
      "payment_release_information_receiver_fin_copy",
      "payment_release_information_receiver_fin_inform",
      "screening_information_receiver",
      "payment_controls_information_for_receiver" }

TrailerFields == {"pac", "chk", "sys", "tng", "pde", "pdm", "dlm", "mrf"}

Spaces12 == <<" ", " ", " ", " ", " ", " ", " ", " ", " ", " ", " ", " ">>

IsDefaultBasicHeader(h) ==
    /\ h.application_identifier = <<"F">>
    /\ h.service_identifier = "Message"
    /\ h.logical_terminal = Spaces12
    /\ h.session_number = 0
    /\ h.sequence_number = 0

IsDefaultTagHeader(h, fields) ==
    /\ DOMAIN h = fields \cup {"unk_fields"}
    /\ \A f \in fields : h[f] = <<>>
    /\ DOMAIN h.unk_fields = {}

\* C12: parse puts a default in the place of every absent block: the basic header
\* F / Message / 12 spaces / 0 / 0, the application header Empty, a user header
\* and a trailer with no field set and no unknown tag; the empty input parses
\* to a message made of the four defaults.
C12_Defaults ==
    /\ (basic_header # Unset /\ "1" \notin DOMAIN blocks) => IsDefaultBasicHeader(basic_header)
    /\ (application_header # Unset /\ "2" \notin DOMAIN blocks) =>
            application_header = [variant |-> "Empty"]
    /\ (user_header # Unset /\ "3" \notin DOMAIN blocks) =>
            IsDefaultTagHeader(user_header, UserHeaderFields)
    /\ (trailer # Unset /\ "5" \notin DOMAIN blocks) =>
            IsDefaultTagHeader(trailer, TrailerFields)
    /\ (pc = "returned" /\ data = <<>>) =>
            /\ ret.ok
            /\ IsDefaultBasicHeader(ret.val.basic_header)
            /\ ret.val.application_header = [variant |-> "Empty"]
            /\ IsDefaultTagHeader(ret.val.user_header, UserHeaderFields)
            /\ IsDefaultTagHeader(ret.val.trailer, TrailerFields)

C12_Witness ==
    /\ pc = "returned"
    /\ ret.ok
    /\ DOMAIN blocks = {"2", "4"}
    /\ IsDefaultBasicHeader(ret.val.basic_header)
    /\ IsDefaultTagHeader(ret.val.trailer, TrailerFields)

\* the steps of parse that fail on the input, told from the framer's result and
\* from the block contents
FramingFails == result \in Errors
Block1Fails == "1" \in DOMAIN blocks /\ ~BasicHeader_from_raw(blocks["1"]).ok
Block2Fails == "2" \in DOMAIN blocks /\ ~ApplicationHeader_from_raw(blocks["2"]).ok

\* C13: parse returns an error whenever the framing fails or the decoder of a
\* present block fails; the error is the one of the first failing step in the
\* order framing, block 1, block 2, block 3, block 5, and no later step is run.
C13_FirstError ==
    pc = "returned" =>
        /\ ret.ok <=> ~(FramingFails \/ Block1Fails \/ Block2Fails)
        /\ FramingFails =>
            /\ ret = [ok |-> FALSE, err |-> result]
            /\ basic_header = Unset /\ application_header = Unset
            /\ user_header = Unset /\ trailer = Unset
        /\ (~FramingFails /\ Block1Fails) =>
            /\ ret = [ok |-> FALSE,
                      err |-> <<E_BASIC_HEADER, BasicHeader_from_raw(blocks["1"]).err>>]
            /\ basic_header = Unset /\ application_header = Unset
            /\ user_header = Unset /\ trailer = Unset
        /\ (~FramingFails /\ ~Block1Fails /\ Block2Fails) =>
            /\ ret = [ok |-> FALSE,
                      err |-> <<E_APPLICATION_HEADER,
                                ApplicationHeader_from_raw(blocks["2"]).err>>]
            /\ basic_header # Unset /\ application_header = Unset
            /\ user_header = Unset /\ trailer = Unset

C13_Witness ==
    /\ pc = "returned"
    /\ ~FramingFails /\ Block1Fails /\ Block2Fails
    /\ {"3", "5"} \subseteq DOMAIN blocks
    /\ ret.err[1] = E_BASIC_HEADER

\* the three numeric fields of a block 1 of 25 characters or more
NumericColumns == (2..3) \cup (16..25)

\* the service codes of the closed enumeration
ServiceCodes == {1, 2, 3, 5, 6, 14, 16, 21, 22, 23, 25, 26, 42, 43}

\* block 1 was framed and its decoder has succeeded
BasicHeaderDecoded == result = "Ok" /\ "1" \in DOMAIN blocks /\ basic_header # Unset

\* C14: decoding block 1 is an error when the content has fewer than 25
\* characters, when one of service_identifier, session_number and
\* sequence_number holds a character that is not a decimal digit, or when the
\* service code is outside the enumeration.
C14_BlockOneErrors ==
    BasicHeaderDecoded =>
        /\ Len(blocks["1"]) >= 25
        /\ \A i \in NumericColumns : blocks["1"][i] \in Digits
        /\ Decimal(SubSeq(blocks["1"], 2, 3)) \in ServiceCodes

\* the number a numeric field stands for: its decimal digits, after the sign
\* that str::parse accepts in front of them
NumberOf(s) == Decimal(IF s # <<>> /\ s[1] = "+" THEN Tail(s) ELSE s)

\* C15: a successful decode of block 1 reads fixed widths: the application
\* identifier is character 1, the service identifier is the enum value of
\* characters 2-3, the logical terminal is characters 4-15 unchanged, the session
\* number is characters 16-19 and the sequence number characters 20-25.
C15_FixedWidths ==
    BasicHeaderDecoded =>
        LET c == blocks["1"] IN
        /\ basic_header.application_identifier = SubSeq(c, 1, 1)
        /\ <<NumberOf(SubSeq(c, 2, 3)), basic_header.service_identifier>> \in ServiceIdentifier
        /\ basic_header.logical_terminal = SubSeq(c, 4, 15)
        /\ basic_header.session_number = NumberOf(SubSeq(c, 16, 19))
        /\ basic_header.sequence_number = NumberOf(SubSeq(c, 20, 25))

C15_Witness ==
    /\ BasicHeaderDecoded
    /\ Len(blocks["1"]) = 26
    /\ basic_header.application_identifier = <<"A">>
    /\ basic_header.service_identifier = "SelectNegativeAck"
    /\ basic_header.logical_terminal[5] = " "
    /\ basic_header.session_number = 12
    /\ basic_header.sequence_number = 345

\* parse has gone through the step that yields the application header
ApplicationStepDone ==
    result = "Ok" /\ basic_header # Unset /\ pc \in {"block3", "block5", "returned"}

\* C16: the application header is told from the first character of block 2:
\* 'I' gives Input, 'O' gives Output, any other first character or an empty
\* content is an error; Empty stands for an absent block 2 only.
C16_Direction ==
    ApplicationStepDone =>
        IF "2" \notin DOMAIN blocks
        THEN application_header = [variant |-> "Empty"]
        ELSE LET c == blocks["2"] IN
             /\ application_header.variant \in {"Input", "Output", "Unset"}
             /\ application_header.variant = "Input" => c # <<>> /\ c[1] = "I"
             /\ application_header.variant = "Output" => c # <<>> /\ c[1] = "O"
             /\ (c = <<>> \/ c[1] \notin {"I", "O"}) =>
                    /\ application_header = Unset
                    /\ pc = "returned" /\ ~ret.ok /\ ret.err[1] = E_APPLICATION_HEADER

C16_Witness ==
    /\ ApplicationStepDone
    /\ "2" \in DOMAIN blocks
    /\ application_header.variant = "Output"
    /\ application_header.sender_datetime.year = 2000
    /\ application_header.receiver_datetime.year = 1997

\* C17: after the mandatory fields of an Input header, delivery_monitoring is the
\* next character when one is left and empty otherwise, obsolescence_period is
\* the next three characters when three are left and empty otherwise; a missing
\* optional field is no error, a missing mandatory field is one.
C17_OptionalTail ==
    (ApplicationStepDone /\ "2" \in DOMAIN blocks /\ blocks["2"] # <<>> /\ blocks["2"][1] = "I") =>
        LET c == blocks["2"] IN
        /\ application_header # Unset <=> Len(c) >= 17
        /\ Len(c) >= 17 =>
            /\ application_header.message_type = SubSeq(c, 2, 4)
            /\ application_header.destination = SubSeq(c, 5, 16)
            /\ application_header.priority = SubSeq(c, 17, 17)
            /\ application_header.delivery_monitoring =
                    (IF Len(c) >= 18 THEN SubSeq(c, 18, 18) ELSE <<>>)
            /\ application_header.obsolescence_period =
                    (IF Len(c) >= 21 THEN SubSeq(c, 19, 21) ELSE <<>>)

C17_Witness ==
    /\ ApplicationStepDone
    /\ "2" \in DOMAIN blocks
    /\ Len(blocks["2"]) = 20
    /\ application_header.variant = "Input"
    /\ application_header.delivery_monitoring = <<"2">>
    /\ application_header.obsolescence_period = <<>>

\* the entries of a tag-block content, told by the index of their closing brace
EntryEnds(c) == { j \in DOMAIN c : c[j] = CLOSE }

EntryStart(c, j) ==
    IF \E i \in 1..(j - 1) : c[i] = CLOSE
    THEN (CHOOSE i \in 1..(j - 1) : c[i] = CLOSE /\ \A x \in (i + 1)..(j - 1) : c[x] # CLOSE) + 1
    ELSE 1

EntryColon(c, j) ==
    CHOOSE k \in EntryStart(c, j)..j :
        c[k] = COLON /\ \A x \in EntryStart(c, j)..(k - 1) : c[x] # COLON

\* the content is a concatenation of {TAG:VALUE} entries and nothing else
MadeOfEntries(c) ==
    /\ c = <<>> \/ c[Len(c)] = CLOSE
    /\ \A j \in EntryEnds(c) :
        /\ c[EntryStart(c, j)] = OPEN
        /\ \E k \in EntryStart(c, j)..j : c[k] = COLON

EntryTag(c, j) == SubSeq(c, EntryStart(c, j) + 1, EntryColon(c, j) - 1)
EntryValue(c, j) == SubSeq(c, EntryColon(c, j) + 1, j - 1)

\* the entry is the last one of its tag
LastOfTag(c, j) == \A x \in EntryEnds(c) : x > j => EntryTag(c, x) # EntryTag(c, j)

\* the entry is held by the field of its tag, or by the unknown mapping, not both
Placed(h, table, tag, value) ==
    IF tag \in TagsOf(table)
    THEN /\ \E i \in DOMAIN table : table[i][1] = tag /\ h[table[i][2]] = <<value>>
         /\ tag \notin DOMAIN h.unk_fields
    ELSE /\ tag \in DOMAIN h.unk_fields
         /\ h.unk_fields[tag] = value

\* nothing but the entries of the content is in the header
OnlyEntries(h, table, c) ==
    /\ \A i \in DOMAIN table :
        (\A j \in EntryEnds(c) : EntryTag(c, j) # table[i][1]) => h[table[i][2]] = <<>>
    /\ DOMAIN h.unk_fields \cap TagsOf(table) = {}
    /\ DOMAIN h.unk_fields \subseteq { EntryTag(c, j) : j \in EntryEnds(c) }

UserHeaderDecoded == result = "Ok" /\ "3" \in DOMAIN blocks /\ user_header # Unset
TrailerDecoded == result = "Ok" /\ "5" \in DOMAIN blocks /\ trailer # Unset

\* C18, as stated: decoding a user-header or trailer content made of {TAG:VALUE}
\* entries puts every entry in exactly one place, the field of TAG when TAG is
\* recognised and unknown[TAG] = VALUE otherwise; recognised tags that are not
\* present are None and no recognised tag is a key of the unknown mapping.
C18_EveryEntryPlaced ==
    /\ (UserHeaderDecoded /\ MadeOfEntries(blocks["3"])) =>
        /\ \A j \in EntryEnds(blocks["3"]) :
            Placed(user_header, USER_HEADER_TAGS,
                   EntryTag(blocks["3"], j), EntryValue(blocks["3"], j))
        /\ OnlyEntries(user_header, USER_HEADER_TAGS, blocks["3"])
    /\ (TrailerDecoded /\ MadeOfEntries(blocks["5"])) =>
        /\ \A j \in EntryEnds(blocks["5"]) :
            Placed(trailer, TRAILER_TAGS,
                   EntryTag(blocks["5"], j), EntryValue(blocks["5"], j))
        /\ OnlyEntries(trailer, TRAILER_TAGS, blocks["5"])

\* C18, amended: the same for the last entry of every tag; an entry that is
\* followed by another entry of the same tag is dropped.
C18_LastEntryPlaced ==
    /\ (UserHeaderDecoded /\ MadeOfEntries(blocks["3"])) =>
        /\ \A j \in EntryEnds(blocks["3"]) :
            LastOfTag(blocks["3"], j) =>
                Placed(user_header, USER_HEADER_TAGS,
                       EntryTag(blocks["3"], j), EntryValue(blocks["3"], j))
        /\ OnlyEntries(user_header, USER_HEADER_TAGS, blocks["3"])
    /\ (TrailerDecoded /\ MadeOfEntries(blocks["5"])) =>
        /\ \A j \in EntryEnds(blocks["5"]) :
            LastOfTag(blocks["5"], j) =>
                Placed(trailer, TRAILER_TAGS,
                       EntryTag(blocks["5"], j), EntryValue(blocks["5"], j))
        /\ OnlyEntries(trailer, TRAILER_TAGS, blocks["5"])

C18_Witness ==
    /\ TrailerDecoded
    /\ MadeOfEntries(blocks["5"])
    /\ Cardinality(EntryEnds(blocks["5"])) = 2
    /\ trailer.mrf = <<<<"a", COLON, "b">>>>
    /\ DOMAIN trailer.unk_fields = {<<"1", "0", "3">>}

\* the table of the header that was encoded
OriginTable == IF origin.block = "3" THEN USER_HEADER_TAGS ELSE TRAILER_TAGS

\* C19: round trip of the tag blocks: a user header or trailer value whose tags
\* and values hold no '}' and whose tags hold no ':' is encoded with to_raw; the
\* string is framed as a top-level block and decoded by the decoder of that
\* header; the result equals the original value.  The values are those of the
\* data model: no recognised tag is a key of the unknown mapping.
C19_RoundTrip ==
    (origin # Unset /\ pc = "returned"
        /\ DOMAIN origin.header.unk_fields \cap TagsOf(OriginTable) = {}) =>
        /\ ret.ok
        /\ origin.block = "3" => ret.val.user_header = origin.header
        /\ origin.block = "5" => ret.val.trailer = origin.header

\* C20: the user-header encoder emits '{3:' and the trailer encoder '{5:', then
\* the present known tags as {TAG:VALUE}, then the unknown tags, then '}'.
C20_EncoderOutput ==
    origin # Unset =>
        data = <<OPEN, origin.block, COLON>>
               \o push_known(origin.header, OriginTable, Len(OriginTable))
               \o push_unknown(origin.header, origin.order, Len(origin.order))
               \o <<CLOSE>>

\* the order of the known tags that the specification gives
CanonicalUserTags ==
    << <<"1", "0", "3">>, <<"1", "0", "6">>, <<"1", "0", "8">>, <<"1", "1", "1">>,
       <<"1", "1", "3">>, <<"1", "1", "5">>, <<"1", "1", "9">>, <<"1", "2", "1">>,
       <<"1", "6", "5">>, <<"4", "2", "3">>, <<"4", "2", "4">>, <<"4", "3", "3">>,
       <<"4", "3", "4">> >>

CanonicalTrailerTags ==
    << <<"P", "A", "C">>, <<"C", "H", "K">>, <<"S", "Y", "S">>, <<"T", "N", "G">>,
       <<"P", "D", "E">>, <<"P", "D", "M">>, <<"D", "L", "M">>, <<"M", "R", "F">> >>

\* the rows of the table in the order of the tags
InOrder(table, tags) ==
    [i \in DOMAIN tags |-> table[CHOOSE k \in DOMAIN table : table[k][1] = tags[i]]]

CanonicalTable ==
    IF origin.block = "3" THEN InOrder(USER_HEADER_TAGS, CanonicalUserTags)
    ELSE InOrder(TRAILER_TAGS, CanonicalTrailerTags)

\* C21: the encoders emit the present known tags in the canonical order of the
\* specification, 103, 106, 108, 111, 113, 115, 119, 121, 165, 423, 424, 433, 434
\* for the user header and PAC, CHK, SYS, TNG, PDE, PDM, DLM, MRF for the trailer,
\* and every known tag before every unknown tag.
C21_CanonicalOrder ==
    origin # Unset =>
        SubSeq(data, 4, Len(data)) =
            push_known(origin.header, CanonicalTable, Len(CanonicalTable))
            \o push_unknown(origin.header, origin.order, Len(origin.order))
            \o <<CLOSE>>

\* the string to_raw gives when the unknown mapping iterates in the order o
EncodedWith(o) ==
    IF origin.block = "3" THEN UserHeader_to_raw(origin.header, o)
    ELSE Trailer_to_raw(origin.header, o)

\* C22: encoding is deterministic: equal header values, also with two or more
\* unknown tags, always give the same string.
C22_Deterministic ==
    origin # Unset =>
        \A o \in IterOrders(origin.header.unk_fields) : EncodedWith(o) = data

\* a CR of the input that is not immediately followed by LF
LoneCR(d, i) == d[i] = CR /\ (i = Len(d) \/ d[i + 1] # LF)

\* C23: in next_line a CR that is not immediately followed by LF is no terminator
\* and is kept in the line at its place, also as the last character of the input;
\* a CR immediately followed by LF is consumed with the LF and neither is in the
\* line; the input of the test yields its three lines.
C23_LoneCrKept ==
    (last.op = "next_line" /\ last.from <= Len(data)) =>
        LET p == last.from
            n == Len(last.val)
        IN /\ last.val = SubSeq(data, p + 1, p + n)
           /\ \A i \in (p + 1)..position : LoneCR(data, i) => i <= p + n
           /\ \A i \in (p + 1)..(p + n - 1) : ~(data[i] = CR /\ data[i + 1] = LF)
           /\ IF position = p + n
              THEN position = Len(data)
              ELSE position = p + n + 2 /\ data[p + n + 1] = CR /\ data[p + n + 2] = LF
           /\ data = Example =>
                /\ p = 0 => last.val = ExampleLines[1]
                /\ p = Len(ExampleLines[1]) + 2 => last.val = ExampleLines[2]
                /\ p = Len(ExampleLines[1]) + Len(ExampleLines[2]) + 4 =>
                        last.val = ExampleLines[3]

C23_Witness ==
    /\ last.op = "next_line"
    /\ data = Example
    /\ last.from = Len(ExampleLines[1]) + 2
    /\ last.val = ExampleLines[2]
    /\ position = Len(ExampleLines[1]) + Len(ExampleLines[2]) + 4

\* the lines, with LF between them
RECURSIVE JoinLf(_)
JoinLf(lines) ==
    IF lines = <<>> THEN <<>>
    ELSE IF Len(lines) = 1 THEN lines[1]
    ELSE lines[1] \o <<LF>> \o JoinLf(Tail(lines))

\* s with every CR LF pair replaced by LF
RECURSIVE CrLfToLf(_)
CrLfToLf(s) ==
    IF s = <<>> THEN <<>>
    ELSE IF Len(s) >= 2 /\ s[1] = CR /\ s[2] = LF THEN <<LF>> \o CrLfToLf(SubSeq(s, 3, Len(s)))
    ELSE <<s[1]>> \o CrLfToLf(Tail(s))

EndsWithCrLf(s) == Len(s) >= 2 /\ s[Len(s) - 1] = CR /\ s[Len(s)] = LF

\* what was left of the input when the last call was made
Remainder == SubSeq(data, last.from + 1, Len(data))

\* C24, as stated: the lines that next_line returns until the cursor has no more
\* characters, joined with LF, are the input with every CR LF pair replaced by LF
\* and every lone CR kept.
C24_JoinedLines ==
    last.op = "read_lines" => JoinLf(last.val) = CrLfToLf(Remainder)

\* C24, amended: the same, except that a CR LF pair that ends the input leaves
\* nothing in the joined lines.
C24_JoinedLinesButLast ==
    last.op = "read_lines" =>
        /\ last.ok
        /\ position = (IF last.from > Len(data) THEN last.from ELSE Len(data))
        /\ JoinLf(last.val) =
            (IF EndsWithCrLf(Remainder)
             THEN SubSeq(CrLfToLf(Remainder), 1, Len(CrLfToLf(Remainder)) - 1)
             ELSE CrLfToLf(Remainder))

C24_Witness ==
    /\ last.op = "read_lines"
    /\ last.from = 0
    /\ data = <<CR, LF, CR>>
    /\ last.val = <<<<>>, <<CR>>>>

\* C25: n_chars(n) returns the next n characters and moves the position by n when
\* at least n characters remain; when fewer remain it returns an error and leaves
\* the position where it was.
C25_NCharsAllOrNothing ==
    last.op = "n_chars" =>
        LET p == last.from
            n == last.arg
        IN IF p + n <= Len(data)
           THEN /\ last.ok
                /\ last.val = SubSeq(data, p + 1, p + n)
                /\ position = p + n
           ELSE /\ ~last.ok
                /\ last.val = "End of string"
                /\ position = p
                /\ pc = "cursor"

\* the first occurrence of c after position p, 0 when there is none
FirstOf(d, p, c) ==
    LET at == { i \in (p + 1)..Len(d) : d[i] = c }
    IN IF at = {} THEN 0 ELSE CHOOSE i \in at : \A j \in at : i <= j

\* C26: until(c) returns the characters from the position up to the first
\* occurrence of c, without it, and leaves the position just past it; when c does
\* not occur in the remainder it returns the remainder, leaves the position at
\* the end of the input and reports no error.
C26_Until ==
    last.op = "until" =>
        LET p == last.from
            k == FirstOf(data, p, last.arg)
        IN /\ last.ok
           /\ IF k # 0
              THEN last.val = SubSeq(data, p + 1, k - 1) /\ position = k
              ELSE /\ last.val = SubSeq(data, p + 1, Len(data))
                   /\ position = (IF p > Len(data) THEN p ELSE Len(data))

C26_Witness ==
    /\ last.op = "until"
    /\ last.arg = CLOSE
    /\ last.from = 1
    /\ data = <<CLOSE, "a", CLOSE>>
    /\ last.val = <<"a">>
    /\ position = 3

\* the calls that read from the cursor
Accessors == {"next", "peek", "n_chars", "until", "next_line", "peek_line"}

\* C27: every cursor accessor fails gracefully at the end of the stream: with
\* position = len, next and peek return an error, next_line and until return the
\* empty string without error, and the position is not changed; before the end
\* peek returns the character next would return and consumes nothing.
C27_GracefulAtEnd ==
    /\ (last.op \in Accessors /\ last.from = Len(data)) =>
        /\ pc = "cursor"
        /\ position = last.from
        /\ last.op \in {"next", "peek"} => ~last.ok /\ last.val = "End of string"
        /\ last.op \in {"next_line", "until"} => last.ok /\ last.val = <<>>
    /\ (last.op = "peek" /\ last.from < Len(data)) =>
        /\ last.ok
        /\ last.val = data[last.from + 1]
        /\ position = last.from

\* C28: when the block-4 reader meets a line beginning with "-}" it sets the
\* cursor to the position saved before that line plus 2, immediately after the
\* "-}", so that what follows the sentinel on that line is still in the stream
\* and the outer loop goes on from there.
C28_AfterSentinel ==
    [][(pc = "text_line" /\ starts_with(line, SENTINEL)) =>
          /\ position' = pos + 2
          /\ SubSeq(data, pos + 1, position') = SENTINEL
          /\ pc' = "loop"
          /\ "4" \in DOMAIN blocks']_vars

\* a block that follows the sentinel on its line has been framed after block 4
C28_Witness ==
    /\ pc = "done"
    /\ starts_with(line, SENTINEL)
    /\ "4" \in DOMAIN blocks
    /\ block_type # "4"
    /\ block_type \in DOMAIN blocks
    /\ body_start > pos + 2

\* C29: the cursor position is monotonic while a message is framed and decoded:
\* no step of the framer or of the decoders decreases it.
C29_Monotonic == [][position' >= position]_vars

\* C29, amended: the only step that decreases the position is the re-seek of
\* the block-4 reader at the sentinel line, which sets it to the position saved
\* before that line plus 2, after the start of the line and not after its end.
C29_MonotonicButSentinel ==
    [][\/ position' >= position
       \/ /\ pc = "text_line"
          /\ starts_with(line, SENTINEL)
          /\ position' = pos + 2
          /\ position' > pos]_vars

\* the sentinel line went on after "-}" and the cursor has been set back into it
C29_Witness ==
    /\ pc = "loop"
    /\ starts_with(line, SENTINEL)
    /\ "4" \in DOMAIN blocks
    /\ position = pos + 2
    /\ position < Len(data)

\* the position at which the current turn of the outer loop of read_blocks
\* began, once its '{', label and ':' have been read
IterationStart == body_start - Len(<<OPEN, "4", COLON>>)

\* the steps of one turn of the outer loop: the three characters of the opener
\* are consumed one by one, the body starts after them, and the turn ends
\* with the cursor after the position it began at
IterationAdvances ==
    /\ (pc = "loop" /\ pc' # "done") => position' = position + 1
    /\ (pc \in {"label", "separator"} /\ pc' # "error") => position' = position + 1
    /\ pc = "dispatch" => body_start' = position
    /\ pc \in {"system", "text", "text_line"} => body_start' = body_start
    /\ (pc # "loop" /\ pc' = "loop") => position' > IterationStart'

\* C30: the framer terminates on every finite input: each turn of the outer
\* loop of read_blocks returns an error or ends with the cursor at a strictly
\* greater position than it began at, also after the re-seek of block 4, and
\* the loop reaches the end of the stream or an error.
C30_Terminates ==
    /\ [][IterationAdvances]_vars
    /\ <>(pc \in {"done", "error"})

\* two turns of the loop, one of them ended by the re-seek of block 4, and then
\* the end of the stream
C30_Witness ==
    /\ pc = "done"
    /\ position = Len(data)
    /\ starts_with(line, SENTINEL)
    /\ Cardinality(DOMAIN blocks) >= 2

\* the body of a block is about to be completed: a flat block is dispatched,
\* a system block meets its closing '}', block 4 has read its sentinel line
BlockEnds ==
    \/ pc = "dispatch" /\ IsFlat(block_type)
    \/ pc = "system" /\ ~AtEnd /\ Cur = CLOSE /\ nesting_level = 1
    \/ pc = "text_line" /\ starts_with(line, SENTINEL)

\* the content of the block that is being completed
EndedContent ==
    IF pc = "dispatch" THEN until(data, position, CLOSE).val ELSE cur_content

\* C31: the block mapping holds one block per label, and a label that occurs
\* again is not rejected: the framer goes on without error, the block read
\* last replaces the earlier one, the other entries are kept, and the mapping
\* does not grow although one more block was read.
C31_LastBlockReplaces ==
    [][/\ (pc # "loop" /\ pc' = "loop") => BlockEnds
       /\ BlockEnds =>
            /\ pc' = "loop"
            /\ result' = result
            /\ DOMAIN blocks' = DOMAIN blocks \cup {block_type}
            /\ blocks'[block_type] = EndedContent
            /\ \A k \in DOMAIN blocks \ {block_type} : blocks'[k] = blocks[k]
            /\ block_type \in DOMAIN blocks =>
                 Cardinality(DOMAIN blocks') = Cardinality(DOMAIN blocks)]_vars

\* two blocks with label 1 were framed, the first with content "{a" and the
\* second empty: the framer succeeded and the one entry has the second content
C31_Witness ==
    /\ pc = "done"
    /\ result = "Ok"
    /\ data = <<OPEN, "1", COLON, OPEN, "a", CLOSE, OPEN, "1", COLON>>
    /\ DOMAIN blocks = {"1"}
    /\ blocks["1"] = <<>>

\* the characters from the cursor to the end of the input
Remaining == SubSeq(data, position + 1, Len(data))

\* no '}' is left in the input from the cursor on
Unclosed == \A i \in (position + 1)..Len(data) : data[i] # CLOSE

\* C32: a flat block with label 1 or 2 whose closing '}' is missing is accepted
\* without error: every remaining character of the input becomes its content
\* and the framer ends successfully at the end of the stream, whereas the end
\* of the stream inside a system block or inside block 4 is an error.
C32_UnclosedFlatAccepted ==
    [][/\ (pc = "dispatch" /\ block_type \in {"1", "2"} /\ Unclosed) =>
            /\ pc' = "loop"
            /\ result' = result
            /\ position' = Len(data)
            /\ blocks'[block_type] = Remaining
       /\ (pc = "loop" /\ AtEnd) => (pc' = "done" /\ result' = "Ok")
       /\ (pc \in {"system", "text"} /\ AtEnd) =>
            (pc' = "error" /\ result' \in {E_SYSTEM_EOS, E_TEXT_EOS})]_vars

\* a block 1 or 2 without '}' was the last of the input: its content is the
\* non-empty rest of the input and the framer returned Ok
C32_Witness ==
    /\ pc = "done"
    /\ result = "Ok"
    /\ block_type \in {"1", "2"}
    /\ position = Len(data)
    /\ body_start < Len(data)
    /\ \A i \in (body_start + 1)..Len(data) : data[i] # CLOSE
    /\ blocks[block_type] = SubSeq(data, body_start + 1, Len(data))

====
